---- MODULE Spec2Model ----
(***************************************************************************)
(* The graph index of embiggen (embiggen/graph/graph.py): the constructor  *)
(* Graph.__init__, its query methods, and the parallel walk kernel         *)
(* random_walk; the alias sampler it draws with; GraphFactory.read_csv     *)
(* (embiggen/graph/graph_factory.py); and NodeTransformer                  *)
(* (embiggen/transformers/node_transformer.py).                            *)
(*                                                                         *)
(* Conventions.  Python lists and numpy arrays are functions over 0..n-1   *)
(* (node ids, edge ids and positions are 0-based, as in the source).       *)
(* A float vector is a record [num, den]: the entries are num[i]/den, so   *)
(* that the division probs/total and the alias tables are exact rationals. *)
(* The typed dictionary _edges is insertion ordered: it is a record        *)
(* [keys, val], keys the ordered pairs in insertion order and val the      *)
(* mapping from a pair to its value.                                       *)
(***************************************************************************)
EXTENDS Integers, Sequences, FiniteSets, TLC

VARIABLES
    args,       \* the arguments of Graph.__init__
    state,      \* "new", "built" or "build_failed" for a Graph; "transformer" for
                \* a NodeTransformer; "no_graph" without an object
    self,       \* the fields of the object: a Graph or a NodeTransformer
    locals,     \* the constructor's local lists, kept for inspection
    call,       \* the last query made on the graph and its arguments
    ret,        \* what that query returned or raised
    walk_args,  \* the arguments of the running / last random_walk call
    walk_state, \* "idle", "running", "returned", "error" or "crashed"
    all_walks,  \* the matrix allocated by random_walk
    task,       \* per prange iteration (i, start_node): its position and locals
    stray,      \* the writes of the walk kernel that fell outside the task's row
    log         \* the calls made on a NodeTransformer so far, and whether each raised

vars == <<args, state, self, locals, call, ret,
          walk_args, walk_state, all_walks, task, stray, log>>

----------------------------------------------------------------------------
(* Bounds of the model. *)

\* Longest list of input edges handed to the constructor.
MaxEdges == 2
\* Largest weight of an input edge.
MaxWeight == 2
\* Largest number of cell writes of one random_walk call: each of its
\* nodes_number * num_walks iterations writes max(walk_length, 2) cells.
MaxCells == 9
\* Longest list of input edges of a graph that is queried while it is walked.
MaxFrameEdges == 1
\* Longest weight vector handed to alias_setup on its own.
MaxVector == 3
\* Largest entry of such a vector; the smallest is -1.
MaxEntry == 3
\* Longest list of node names in a nodes file.
MaxNodes == 2
\* Longest sequence of calls made on a NodeTransformer.
MaxCalls == 3

----------------------------------------------------------------------------
(* 0-based lists. *)

Empty == [i \in {} |-> 0]

\* Python's None, and the value of a variable that is not assigned.
None == [none |-> TRUE]

Len0(a) == Cardinality(DOMAIN a)

Append0(a, x) == [i \in 0..Len0(a) |-> IF i < Len0(a) THEN a[i] ELSE x]

Range0(a) == {a[i] : i \in DOMAIN a}

RECURSIVE SumTo(_, _)
SumTo(a, n) == IF n = 0 THEN 0 ELSE a[n - 1] + SumTo(a, n - 1)

Sum(a) == SumTo(a, Len0(a))

----------------------------------------------------------------------------
(* The alias sampler (embiggen/graph/alias_method.py, Walker's method).    *)

AliasError == [error |-> "ValueError"]

\* alias_invalid letting the empty vector through.
alias_invalid_but_empty(w) ==
    \/ \E i \in DOMAIN w.num : w.num[i] < 0
    \/ Len0(w.num) > 0 /\ Sum(w.num) = 0

\* An empty vector, a negative entry or a zero sum is rejected.
alias_invalid(w) ==
    \/ Len0(w.num) = 0
    \/ \E i \in DOMAIN w.num : w.num[i] < 0
    \/ Sum(w.num) = 0

\* The indices of q, in increasing order, that are small (< one) or not.
RECURSIVE alias_partition(_, _, _, _)
alias_partition(q, one, small, n) ==
    IF n = 0 THEN <<>>
    ELSE LET rest == alias_partition(q, one, small, n - 1)
         IN  IF (q[n - 1] < one) = small THEN Append(rest, n - 1) ELSE rest

\* alias_pair leaving the large entry its whole mass when it fills a small one.
RECURSIVE alias_pair_unbalanced(_, _, _, _, _)
alias_pair_unbalanced(smaller, larger, J, q, one) ==
    IF smaller = <<>> \/ larger = <<>>
    THEN [prob_index |-> J, prob_value |-> [num |-> q, den |-> one]]
    ELSE LET small == smaller[Len(smaller)]
             large == larger[Len(larger)]
             s2 == SubSeq(smaller, 1, Len(smaller) - 1)
             J2 == [J EXCEPT ![small] = large]
         IN  alias_pair_unbalanced(s2, larger, J2, q, one)

\* Pop one small and one large entry until one of the queues is exhausted.
RECURSIVE alias_pair(_, _, _, _, _)
alias_pair(smaller, larger, J, q, one) ==
    IF smaller = <<>> \/ larger = <<>>
    THEN [prob_index |-> J, prob_value |-> [num |-> q, den |-> one]]
    ELSE LET small == smaller[Len(smaller)]
             large == larger[Len(larger)]
             s2 == SubSeq(smaller, 1, Len(smaller) - 1)
             l2 == SubSeq(larger, 1, Len(larger) - 1)
             J2 == [J EXCEPT ![small] = large]
             q2 == [q EXCEPT ![large] = q[large] - (one - q[small])]
         IN  IF q2[large] < one
             THEN alias_pair(Append(s2, large), l2, J2, q2, one)
             ELSE alias_pair(s2, Append(l2, large), J2, q2, one)

\* alias_setup without the scaling by n: entry i is num[i] / Sum(num).
alias_setup_unscaled(w) ==
    IF alias_invalid(w) THEN AliasError
    ELSE LET n == Len0(w.num)
             one == Sum(w.num)
             q == [i \in 0..(n - 1) |-> w.num[i]]
             J == [i \in 0..(n - 1) |-> 0]
         IN  alias_pair(alias_partition(q, one, TRUE, n),
                        alias_partition(q, one, FALSE, n), J, q, one)

\* alias_setup without the normalization: entry i is n * num[i], as if the
\* weights already summed to 1.
alias_setup_unnormalized(w) ==
    IF alias_invalid(w) THEN AliasError
    ELSE LET n == Len0(w.num)
             one == 1
             q == [i \in 0..(n - 1) |-> n * w.num[i]]
             J == [i \in 0..(n - 1) |-> 0]
         IN  alias_pair(alias_partition(q, one, TRUE, n),
                        alias_partition(q, one, FALSE, n), J, q, one)

\* setup(weights): the weights are normalized to sum to 1 and scaled by n,
\* so entry i is n * num[i] / Sum(num): numerator n * num[i] over Sum(num).
alias_setup(w) ==
    IF alias_invalid(w) THEN AliasError
    ELSE LET n == Len0(w.num)
             one == Sum(w.num)
             q == [i \in 0..(n - 1) |-> n * w.num[i]]
             J == [i \in 0..(n - 1) |-> 0]
         IN  alias_pair(alias_partition(q, one, TRUE, n),
                        alias_partition(q, one, FALSE, n), J, q, one)

\* draw(prob_index, prob_value): a uniform bin i and a uniform r in [0,1);
\* i when r < prob_value[i], else prob_index[i].  The set of possible results.
alias_draw(j, q) ==
    {i \in DOMAIN j : q.num[i] > 0} \cup {j[i] : i \in {k \in DOMAIN j : q.num[k] < q.den}}

----------------------------------------------------------------------------
(* Graph: the query methods.                                               *)

\* A call returns [value |-> v] or raises: [error |-> the exception].
Return(v) == [value |-> v]
Raised(r) == "error" \in DOMAIN r
KeyError == [error |-> "KeyError"]
IndexError == [error |-> "IndexError"]
ValueError == [error |-> "ValueError"]

has_edge(graph, edge) == edge \in DOMAIN graph._edges.val

\* get_edge_id answering a missing pair with a default instead of raising.
get_edge_id_default(graph, src, dst) ==
    IF <<src, dst>> \in DOMAIN graph._edges.val
    THEN Return(graph._edges.val[<<src, dst>>])
    ELSE Return(0)

get_edge_id(graph, src, dst) ==
    IF <<src, dst>> \in DOMAIN graph._edges.val
    THEN Return(graph._edges.val[<<src, dst>>])
    ELSE KeyError

\* get_edge_destination returning the first node of the pair, the source.
get_edge_destination_source(graph, edge) ==
    IF edge \in DOMAIN graph._edges_indices
    THEN Return(graph._edges_indices[edge][1])
    ELSE IndexError

get_edge_destination(graph, edge) ==
    IF edge \in DOMAIN graph._edges_indices
    THEN Return(graph._edges_indices[edge][2])
    ELSE IndexError

nodes_number(graph) == Len0(graph._nodes_alias)

----------------------------------------------------------------------------
(* Graph.__init__.                                                         *)

\* nodes_mapping[node] = i for i, node in enumerate(nodes): the last index wins.
nodes_mapping(nodes) ==
    [name \in Range0(nodes) |->
        CHOOSE i \in DOMAIN nodes :
            nodes[i] = name /\ \A k \in DOMAIN nodes : nodes[k] = name => k <= i]

\* d[key] = value on the insertion-ordered dictionary d.
dict_set(d, key, value) ==
    [keys |-> IF key \in DOMAIN d.val THEN d.keys ELSE Append0(d.keys, key),
     val  |-> [k \in DOMAIN d.val \cup {key} |-> IF k = key THEN value ELSE d.val[k]]]

\* The state of the insertion loop before any edge: an empty dictionary and
\* one empty neighbour list and weight list per node.
empty_index(nodes) ==
    [_edges |-> [keys |-> Empty, val |-> Empty],
     nodes_neighbours   |-> [n \in 0..(Len0(nodes) - 1) |-> Empty],
     neighbours_weights |-> [n \in 0..(Len0(nodes) - 1) |-> Empty],
     i |-> 0]

\* insert_edge without the increment of i.
insert_edge_same_id(st, src, dst, weight) ==
    [_edges |-> dict_set(st._edges, <<src, dst>>, st.i),
     nodes_neighbours   |-> [st.nodes_neighbours EXCEPT ![src] = Append0(@, dst)],
     neighbours_weights |-> [st.neighbours_weights EXCEPT ![src] = Append0(@, weight)],
     i |-> st.i]

\* insert_edge appending the weight to the list of dst instead of that of src.
insert_edge_weight_at_dst(st, src, dst, weight) ==
    [_edges |-> dict_set(st._edges, <<src, dst>>, st.i),
     nodes_neighbours   |-> [st.nodes_neighbours EXCEPT ![src] = Append0(@, dst)],
     neighbours_weights |-> [st.neighbours_weights EXCEPT ![dst] = Append0(@, weight)],
     i |-> st.i + 1]

\* self._edges[(src, dst)] = i; nodes_neighbours[src].append(dst);
\* neighbours_weights[src].append(weight); i += 1
insert_edge(st, src, dst, weight) ==
    [_edges |-> dict_set(st._edges, <<src, dst>>, st.i),
     nodes_neighbours   |-> [st.nodes_neighbours EXCEPT ![src] = Append0(@, dst)],
     neighbours_weights |-> [st.neighbours_weights EXCEPT ![src] = Append0(@, weight)],
     i |-> st.i + 1]

\* add_input_edge testing the edge itself, not its reverse, before it adds the
\* reverse.
add_input_edge_same_test(st, mapping, edge, weight, is_directed) ==
    LET src == mapping[edge[1]]
        dst == mapping[edge[2]]
        st1 == IF ~has_edge(st, <<src, dst>>)
               THEN insert_edge(st, src, dst, weight) ELSE st
    IN  IF ~(is_directed \/ has_edge(st1, <<src, dst>>))
        THEN insert_edge(st1, dst, src, weight) ELSE st1

\* add_input_edge without the has_edge test on the edge itself.
add_input_edge_untested(st, mapping, edge, weight, is_directed) ==
    LET src == mapping[edge[1]]
        dst == mapping[edge[2]]
        st1 == insert_edge(st, src, dst, weight)
    IN  IF ~(is_directed \/ has_edge(st1, <<dst, src>>))
        THEN insert_edge(st1, dst, src, weight) ELSE st1

\* One iteration of the loop over the input edges.
add_input_edge(st, mapping, edge, weight, is_directed) ==
    LET src == mapping[edge[1]]
        dst == mapping[edge[2]]
        st1 == IF ~has_edge(st, <<src, dst>>)
               THEN insert_edge(st, src, dst, weight) ELSE st
    IN  IF ~(is_directed \/ has_edge(st1, <<dst, src>>))
        THEN insert_edge(st1, dst, src, weight) ELSE st1

RECURSIVE insert_edges(_, _)
insert_edges(a, k) ==
    IF k = 0 THEN empty_index(a.nodes)
    ELSE add_input_edge(insert_edges(a, k - 1), nodes_mapping(a.nodes),
                        a.edges[k - 1], a.weights[k - 1], a.directed[k - 1])

\* edges_indices with the keys taken from the last inserted to the first.
edges_indices_reversed(d) == [e \in DOMAIN d.keys |-> d.keys[Len0(d.keys) - 1 - e]]

\* self._edges_indices: the keys of the dictionary in iteration order.
edges_indices(d) == d.keys

\* edge_successors following the neighbour list from its end to its start.
edge_successors_backwards(st, dst) ==
    [k \in DOMAIN st.nodes_neighbours[dst] |->
        get_edge_id(st, dst, st.nodes_neighbours[dst][Len0(st.nodes_neighbours[dst]) - 1 - k]).value]

\* The successors of the edge (_, dst): the ids of the edges (dst, neigh) for
\* neigh in nodes_neighbours[dst].
edge_successors(st, dst) ==
    [k \in DOMAIN st.nodes_neighbours[dst] |->
        get_edge_id(st, dst, st.nodes_neighbours[dst][k]).value]

edges_neighbours(st) ==
    LET indices == edges_indices(st._edges)
    IN  [e \in DOMAIN indices |-> edge_successors(st, indices[e][2])]

\* transition_weight reading the weight list of src instead of that of dst.
transition_weight_of_src(st, src, dst, index, neighbour, return_weight, explore_weight) ==
    LET weight == IF index \in DOMAIN st.neighbours_weights[src]
                  THEN st.neighbours_weights[src][index] ELSE 0
    IN  IF has_edge(st, <<neighbour, src>>) THEN weight
        ELSE IF neighbour = src THEN weight * return_weight
        ELSE weight * explore_weight

\* The weight given to position index of the successors of the edge (src, dst);
\* neighbour is the entry of edge_neighbours at that position.
transition_weight(st, src, dst, index, neighbour, return_weight, explore_weight) ==
    LET weight == st.neighbours_weights[dst][index]
    IN  IF has_edge(st, <<neighbour, src>>) THEN weight
        ELSE IF neighbour = src THEN weight * return_weight
        ELSE weight * explore_weight

\* probs and total of the edge (src, dst): the vector probs/total is [num, den].
edge_probs(st, src, dst, edge_neighbours, return_weight, explore_weight) ==
    LET probs == [index \in DOMAIN edge_neighbours |->
                    transition_weight(st, src, dst, index, edge_neighbours[index],
                                      return_weight, explore_weight)]
    IN  [num |-> probs, den |-> Sum(probs)]

\* The triple appended to _nodes_alias or _edges_alias, or the error of alias_setup.
alias_triple(neighbours, w) ==
    LET t == alias_setup(w)
    IN  IF "error" \in DOMAIN t THEN AliasError
        ELSE [neighbours |-> neighbours, j |-> t.prob_index, q |-> t.prob_value]

nodes_alias(st) ==
    [n \in DOMAIN st.nodes_neighbours |->
        alias_triple(st.nodes_neighbours[n], [num |-> st.neighbours_weights[n], den |-> 1])]

edges_probs(st, return_weight, explore_weight) ==
    LET indices == edges_indices(st._edges)
        succ == edges_neighbours(st)
    IN  [e \in DOMAIN indices |->
            edge_probs(st, indices[e][1], indices[e][2], succ[e],
                       return_weight, explore_weight)]

edges_alias(st, return_weight, explore_weight) ==
    LET succ == edges_neighbours(st)
        probs == edges_probs(st, return_weight, explore_weight)
    IN  [e \in DOMAIN succ |-> alias_triple(succ[e], probs[e])]

\* The whole constructor: the object and its locals, and whether it raised.
Graph(a) ==
    LET st == insert_edges(a, Len0(a.edges))
        na == nodes_alias(st)
        ea == edges_alias(st, a.return_weight, a.explore_weight)
        raised == \/ \E n \in DOMAIN na : "error" \in DOMAIN na[n]
                  \/ \E e \in DOMAIN ea : "error" \in DOMAIN ea[e]
    IN  [raised |-> raised,
         self |-> [_edges |-> st._edges,
                   _edges_indices |-> edges_indices(st._edges),
                   _nodes_alias |-> na,
                   _edges_alias |-> ea],
         locals |-> [nodes_neighbours |-> st.nodes_neighbours,
                     neighbours_weights |-> st.neighbours_weights,
                     edges_neighbours |-> edges_neighbours(st),
                     edges_probs |-> edges_probs(st, a.return_weight, a.explore_weight)]]

----------------------------------------------------------------------------
(* GraphFactory.read_csv (embiggen/graph/graph_factory.py).                *)
(* An edge file is its parsed rows, each a record [subject, object,        *)
(* edge_label, weight], and whether it has the edge_label and the weight   *)
(* column; the rows are well formed.  A nodes file is the list of its ids. *)

\* The order in which strings sort.
StringOrder == <<"A", "B", "C", "D", "x", "y">>

StringRank(name) == CHOOSE i \in 1..Len(StringOrder) : StringOrder[i] = name

\* np.unique(values): the distinct values, sorted.
RECURSIVE np_unique(_)
np_unique(values) ==
    IF values = {} THEN Empty
    ELSE LET last == CHOOSE x \in values :
                        \A y \in values : StringRank(y) <= StringRank(x)
         IN  Append0(np_unique(values \ {last}), last)

\* The values of a row in unique_columns: the start and end node, and the
\* edge type when the file has that column.
unique_columns(edge_file, row) ==
    IF edge_file.has_types
    THEN <<row.subject, row.object, row.edge_label>>
    ELSE <<row.subject, row.object>>

\* edges_df.duplicated(unique_columns): the rows equal to an earlier row on
\* those columns.
duplicated(edge_file) ==
    {k \in DOMAIN edge_file.rows :
        \E h \in DOMAIN edge_file.rows :
            /\ h < k
            /\ unique_columns(edge_file, edge_file.rows[h])
                 = unique_columns(edge_file, edge_file.rows[k])}

\* numba_edge_types: the position of each row's edge type among the sorted
\* distinct edge types.
edge_types(edge_file) ==
    IF edge_file.has_types
    THEN LET unique == np_unique({edge_file.rows[k].edge_label : k \in DOMAIN edge_file.rows})
         IN  [k \in DOMAIN edge_file.rows |->
                CHOOSE i \in DOMAIN unique : unique[i] = edge_file.rows[k].edge_label]
    ELSE Empty

\* read_csv without the test that the nodes of the edges are in the nodes file.
read_csv_trusting_nodes(edge_file, node_path, check_for_duplicates) ==
    LET rows == edge_file.rows
        unique_nodes == np_unique({rows[k].subject : k \in DOMAIN rows}
                                  \cup {rows[k].object : k \in DOMAIN rows})
    IN  IF check_for_duplicates /\ duplicated(edge_file) # {}
        THEN ValueError
        ELSE IF node_path # None
                /\ Cardinality(Range0(node_path.ids)) # Len0(node_path.ids)
        THEN ValueError
        ELSE Return([nodes |-> IF node_path # None
                               THEN node_path.ids ELSE unique_nodes,
                     sources_names |-> [k \in DOMAIN rows |-> rows[k].subject],
                     destinations_names |-> [k \in DOMAIN rows |-> rows[k].object],
                     node_types |-> Empty,
                     edge_types |-> edge_types(edge_file),
                     weights |-> IF edge_file.has_weights
                                 THEN [k \in DOMAIN rows |-> rows[k].weight]
                                 ELSE Empty])

\* read_csv: a ValueError, or the arguments it hands to Graph(...).
read_csv(edge_file, node_path, check_for_duplicates) ==
    LET rows == edge_file.rows
        unique_nodes == np_unique({rows[k].subject : k \in DOMAIN rows}
                                  \cup {rows[k].object : k \in DOMAIN rows})
    IN  IF check_for_duplicates /\ duplicated(edge_file) # {}
        THEN ValueError
        ELSE IF node_path # None
                /\ \E node \in Range0(unique_nodes) : node \notin Range0(node_path.ids)
        THEN ValueError
        ELSE IF node_path # None
                /\ Cardinality(Range0(node_path.ids)) # Len0(node_path.ids)
        THEN ValueError
        ELSE Return([nodes |-> IF node_path # None
                               THEN node_path.ids ELSE unique_nodes,
                     sources_names |-> [k \in DOMAIN rows |-> rows[k].subject],
                     destinations_names |-> [k \in DOMAIN rows |-> rows[k].object],
                     node_types |-> Empty,
                     edge_types |-> edge_types(edge_file),
                     weights |-> IF edge_file.has_weights
                                 THEN [k \in DOMAIN rows |-> rows[k].weight]
                                 ELSE Empty])

----------------------------------------------------------------------------
(* NodeTransformer (embiggen/transformers/node_transformer.py).            *)
(* A DataFrame is a record [type, index, values]: the labels of its rows   *)
(* and the rows, both lists; any other value has another type.             *)

\* NodeTransformer.__init__
NodeTransformer == [_embedding |-> None]

\* fit assigning the embedding before it tests its type.
fit_assigning_first(transformer, embedding) ==
    [self |-> [transformer EXCEPT !._embedding = embedding],
     ret  |-> IF embedding.type # "DataFrame" THEN ValueError ELSE Return(None)]

\* transformer.fit(embedding): the transformer after the call, and what the
\* call returned or raised.
fit(transformer, embedding) ==
    IF embedding.type # "DataFrame"
    THEN [self |-> transformer, ret |-> ValueError]
    ELSE [self |-> [transformer EXCEPT !._embedding = embedding], ret |-> Return(None)]

\* values[nodes]: the rows at the positions nodes, a negative position
\* counting from the end.
values_at(values, nodes) ==
    LET n == Len0(values)
    IN  IF \E k \in DOMAIN nodes : nodes[k] >= n \/ nodes[k] < -n
        THEN IndexError
        ELSE Return([k \in DOMAIN nodes |->
                        values[IF nodes[k] < 0 THEN nodes[k] + n ELSE nodes[k]]])

\* frame.loc[nodes].values: the rows of the labels nodes.
loc_values(frame, nodes) ==
    IF \E k \in DOMAIN nodes : nodes[k] \notin Range0(frame.index)
    THEN KeyError
    ELSE Return([k \in DOMAIN nodes |->
                    frame.values[CHOOSE i \in DOMAIN frame.index :
                                    frame.index[i] = nodes[k]]])

\* transformer.transform(nodes, aligned_node_mapping)
transform(transformer, nodes, aligned_node_mapping) ==
    IF transformer._embedding = None THEN ValueError
    ELSE IF aligned_node_mapping THEN values_at(transformer._embedding.values, nodes)
    ELSE loc_values(transformer._embedding, nodes)

----------------------------------------------------------------------------
(* The inputs of the model.                                                *)

\* The 0-based list holding the elements of the sequence s.
List0(s) == [i \in 0..(Len(s) - 1) |-> s[i + 1]]

\* The lists of node names handed to the constructor.
NodeLists == {List0(<<"A">>), List0(<<"A", "B">>), List0(<<"A", "B", "C">>)}

\* The pairs (return_weight, explore_weight) handed to the constructor.
BiasPairs == {<<1, 1>>, <<2, 3>>}

\* One input edge: its two node names, its weight and its directed flag.
InputEdges(nodes, max_weight) ==
    [edge : Range0(nodes) \X Range0(nodes), weight : 1..max_weight, directed : BOOLEAN]

\* The constructor arguments made of the list l of input edges.
MakeArgs(nodes, l, bias) ==
    [edges    |-> [k \in DOMAIN l |-> l[k].edge],
     weights  |-> [k \in DOMAIN l |-> l[k].weight],
     nodes    |-> nodes,
     directed |-> [k \in DOMAIN l |-> l[k].directed],
     return_weight  |-> bias[1],
     explore_weight |-> bias[2]]

\* a is made of one of the node lists, at most max_edges input edges and a bias pair.
IsArgs(a, node_lists, max_edges, max_weight, biases) ==
    \E nodes \in node_lists, bias \in biases, n \in 0..max_edges :
        \E l \in [0..(n - 1) -> InputEdges(nodes, max_weight)] :
            a = MakeArgs(nodes, l, bias)

\* The undirected input edge (a, b) of unit weight, and the directed one.
Undirected(a, b) == [edge |-> <<a, b>>, weight |-> 1, directed |-> FALSE]
Directed(a, b) == [edge |-> <<a, b>>, weight |-> 1, directed |-> TRUE]

\* The 4-node directed chain A -> B -> C -> D, unit weights, both biases 1.
ChainArgs ==
    MakeArgs(List0(<<"A", "B", "C", "D">>),
             List0(<<Directed("A", "B"), Directed("B", "C"), Directed("C", "D")>>),
             <<1, 1>>)

\* The undirected triangle A-B-C with equal weights, return_weight 10 and
\* explore_weight 1: its three edges in any order, each written either way round.
TriangleArgs ==
    LET sides == {<<"A", "B">>, <<"B", "C">>, <<"A", "C">>}
        ways(p) == {Undirected(p[1], p[2]), Undirected(p[2], p[1])}
    IN  {MakeArgs(List0(<<"A", "B", "C">>), List0(<<x, y, z>>), <<10, 1>>) :
            <<x, y, z>> \in {t \in (UNION {ways(p) : p \in sides}) \X
                                   (UNION {ways(p) : p \in sides}) \X
                                   (UNION {ways(p) : p \in sides}) :
                             /\ Cardinality({{t[1].edge[1], t[1].edge[2]},
                                             {t[2].edge[1], t[2].edge[2]},
                                             {t[3].edge[1], t[3].edge[2]}}) = 3}}

\* Two nodes, a loop on A and the edge A-B, of any weights.
WeightedArgs ==
    {MakeArgs(List0(<<"A", "B">>),
              List0(<<[edge |-> <<"A", "A">>, weight |-> w1, directed |-> FALSE],
                      [edge |-> <<"A", "B">>, weight |-> w2, directed |-> FALSE]>>),
              <<1, 1>>) : w1 \in 1..MaxWeight, w2 \in 1..MaxWeight}

\* Two nodes, an edge from B to A, and the directed edge (A, B) twice, of any
\* weights.
DuplicateArgs ==
    {MakeArgs(List0(<<"A", "B">>),
              List0(<<[edge |-> <<"B", "A">>, weight |-> w0, directed |-> d0],
                      [edge |-> <<"A", "B">>, weight |-> w1, directed |-> TRUE],
                      [edge |-> <<"A", "B">>, weight |-> w2, directed |-> TRUE]>>),
              <<1, 1>>) :
        w0 \in 1..MaxWeight, w1 \in 1..MaxWeight, w2 \in 1..MaxWeight, d0 \in BOOLEAN}

\* The directed 3-cycle A -> B -> C -> A of unit weights.
CycleArgs ==
    MakeArgs(List0(<<"A", "B", "C">>),
             List0(<<Directed("A", "B"), Directed("B", "C"), Directed("C", "A")>>),
             <<1, 1>>)

\* The weight vectors handed to alias_setup on its own: at most max_len entries
\* from -1 to max_entry, as they are or divided by their sum.
WeightVectors(max_len, max_entry) ==
    UNION {{[num |-> v, den |-> d] : d \in {x \in {1, Sum(v)} : x > 0}} :
             v \in UNION {[0..(n - 1) -> -1..max_entry] : n \in 0..max_len}}

\* The edge files of at most max_rows rows over two nodes and two edge types,
\* with or without the edge type and the weight column.
EdgeFiles(max_rows) ==
    LET Rows(has_types) ==
            [subject : {"A", "B"}, object : {"A", "B"},
             edge_label : IF has_types THEN {"x", "y"} ELSE {"x"}, weight : {1}]
    IN  UNION {[rows : [0..(n - 1) -> Rows(has_types)],
                has_types : {has_types}, has_weights : BOOLEAN] :
                  n \in 0..max_rows, has_types \in BOOLEAN}

\* No nodes file, or one of at most max_nodes ids.
NodeFiles(max_nodes) ==
    {None} \cup UNION {[ids : [0..(n - 1) -> {"A", "B"}]] : n \in 0..max_nodes}

\* The values handed to fit: two DataFrames, a numpy array and None.
Embeddings ==
    {[type |-> "DataFrame", index |-> List0(<<"A", "B">>),
      values |-> List0(<<<<1, 2>>, <<3, 4>>>>)],
     [type |-> "DataFrame", index |-> List0(<<"B">>), values |-> List0(<<<<5, 6>>>>)],
     [type |-> "ndarray", index |-> Empty, values |-> List0(<<<<1, 2>>, <<3, 4>>>>)],
     [type |-> "NoneType", index |-> Empty, values |-> Empty]}

\* The lists of nodes handed to transform: labels, or positions with
\* aligned_node_mapping.
NodeLabels == {List0(<<"A">>), List0(<<"B", "A">>), List0(<<"C">>)}
NodePositions == {List0(<<0>>), List0(<<-1, 0>>), List0(<<1>>)}

----------------------------------------------------------------------------
(* The state machine.                                                      *)

NotConstructed ==
    /\ state = "new"
    /\ self = None
    /\ locals = None
    /\ call = None
    /\ ret = None
    /\ walk_args = None
    /\ walk_state = "idle"
    /\ all_walks = None
    /\ task = None
    /\ stray = {}
    /\ log = <<>>

walk_vars == <<walk_args, walk_state, all_walks, task, stray>>
query_vars == <<call, ret>>
graph_vars == <<args, state, self, locals>>

\* graph = Graph(edges, weights, nodes, nodes_type, directed, return_weight, explore_weight)
Build ==
    /\ state = "new"
    /\ LET g == Graph(args)
       IN  IF g.raised
           THEN /\ state' = "build_failed"
                /\ UNCHANGED <<self, locals>>
           ELSE /\ state' = "built"
                /\ self' = g.self
                /\ locals' = g.locals
    /\ UNCHANGED <<args, call, ret>>
    /\ UNCHANGED walk_vars
    /\ UNCHANGED log

\* graph.has_edge((src, dst))
HasEdge ==
    /\ state = "built"
    /\ \E src \in DOMAIN self._nodes_alias, dst \in DOMAIN self._nodes_alias :
        /\ call' = [op |-> "has_edge", args |-> <<src, dst>>]
        /\ ret' = Return(has_edge(self, <<src, dst>>))
    /\ UNCHANGED graph_vars
    /\ UNCHANGED walk_vars
    /\ UNCHANGED log

\* get_edge_id inserting the pair it does not find, as a dictionary with a
\* default factory does.
GetEdgeIdInserting ==
    /\ state = "built"
    /\ \E src \in DOMAIN self._nodes_alias, dst \in DOMAIN self._nodes_alias :
        /\ call' = [op |-> "get_edge_id", args |-> <<src, dst>>]
        /\ self' = IF has_edge(self, <<src, dst>>) THEN self
                   ELSE [self EXCEPT !._edges =
                            dict_set(@, <<src, dst>>, Len0(self._edges.keys))]
        /\ ret' = get_edge_id(self', src, dst)
    /\ UNCHANGED <<args, state, locals>>
    /\ UNCHANGED walk_vars
    /\ UNCHANGED log

\* graph.get_edge_id(src, dst)
GetEdgeId ==
    /\ state = "built"
    /\ \E src \in DOMAIN self._nodes_alias, dst \in DOMAIN self._nodes_alias :
        /\ call' = [op |-> "get_edge_id", args |-> <<src, dst>>]
        /\ ret' = get_edge_id(self, src, dst)
    /\ UNCHANGED graph_vars
    /\ UNCHANGED walk_vars
    /\ UNCHANGED log

\* graph.get_edge_destination(edge)
GetEdgeDestination ==
    /\ state = "built"
    /\ \E edge \in DOMAIN self._edges_indices :
        /\ call' = [op |-> "get_edge_destination", args |-> <<edge>>]
        /\ ret' = get_edge_destination(self, edge)
    /\ UNCHANGED graph_vars
    /\ UNCHANGED walk_vars
    /\ UNCHANGED log

\* transformer.fit(embedding)
Fit ==
    /\ state = "transformer"
    /\ Len(log) < MaxCalls
    /\ \E embedding \in Embeddings :
        /\ call' = [op |-> "fit", args |-> <<embedding>>]
        /\ self' = fit(self, embedding).self
        /\ ret' = fit(self, embedding).ret
        /\ log' = Append(log, [op |-> "fit", raised |-> Raised(fit(self, embedding).ret)])
    /\ UNCHANGED <<args, state, locals>>
    /\ UNCHANGED walk_vars

\* transformer.transform(nodes, aligned_node_mapping)
Transform ==
    /\ state = "transformer"
    /\ Len(log) < MaxCalls
    /\ \E aligned_node_mapping \in BOOLEAN :
        \E nodes \in IF aligned_node_mapping THEN NodePositions ELSE NodeLabels :
            /\ call' = [op |-> "transform", args |-> <<nodes, aligned_node_mapping>>]
            /\ ret' = transform(self, nodes, aligned_node_mapping)
            /\ log' = Append(log, [op |-> "transform",
                                   raised |-> Raised(transform(self, nodes,
                                                               aligned_node_mapping))])
    /\ UNCHANGED graph_vars
    /\ UNCHANGED walk_vars

\* GraphFactory().read_csv(edge_path, node_path, check_for_duplicates=...), for
\* the files of the pending call
ReadCsv ==
    /\ call # None
    /\ call.op = "read_csv"
    /\ ret = None
    /\ ret' = read_csv(call.args.edge_file, call.args.node_path,
                       call.args.check_for_duplicates)
    /\ UNCHANGED call
    /\ UNCHANGED graph_vars
    /\ UNCHANGED walk_vars
    /\ UNCHANGED log

\* j, q = alias_setup(weights), for the weights of the pending call
AliasSetup ==
    /\ call # None
    /\ call.op = "alias_setup"
    /\ ret = None
    /\ ret' = alias_setup(call.args[1])
    /\ UNCHANGED call
    /\ UNCHANGED graph_vars
    /\ UNCHANGED walk_vars
    /\ UNCHANGED log

\* alias_draw(j, q), on the table alias_setup returned
AliasDraw ==
    /\ call # None
    /\ call.op = "alias_setup"
    /\ ret # None
    /\ ~Raised(ret)
    /\ \E index \in alias_draw(ret.prob_index, ret.prob_value) :
        /\ call' = [op |-> "alias_draw", args |-> <<ret.prob_index, ret.prob_value>>]
        /\ ret' = Return(index)
    /\ UNCHANGED graph_vars
    /\ UNCHANGED walk_vars
    /\ UNCHANGED log

----------------------------------------------------------------------------
(* Graph.__init__ step by step: the assignments of the constructor in the  *)
(* order it makes them.  state names the last step that was made; the      *)
(* fields and locals not assigned yet hold no element.                     *)

\* The insertion loop: nodes_mapping, self._edges, nodes_neighbours and
\* neighbours_weights.
BuildEdges ==
    /\ state = "new"
    /\ LET st == insert_edges(args, Len0(args.edges))
       IN  /\ self' = [_edges |-> st._edges, _edges_indices |-> Empty,
                       _nodes_alias |-> Empty, _edges_alias |-> Empty]
           /\ locals' = [nodes_neighbours |-> st.nodes_neighbours,
                         neighbours_weights |-> st.neighbours_weights,
                         edges_neighbours |-> Empty, edges_probs |-> Empty]
    /\ state' = "edges"
    /\ UNCHANGED <<args, call, ret>>
    /\ UNCHANGED walk_vars
    /\ UNCHANGED log

\* self._edges_indices, from the keys of self._edges.
BuildEdgesIndices ==
    /\ state = "edges"
    /\ self' = [self EXCEPT !._edges_indices = edges_indices(self._edges)]
    /\ state' = "edges_indices"
    /\ UNCHANGED <<args, locals, call, ret>>
    /\ UNCHANGED walk_vars
    /\ UNCHANGED log

\* edges_neighbours, the successors of every edge.
BuildEdgesNeighbours ==
    /\ state = "edges_indices"
    /\ locals' = [locals EXCEPT !.edges_neighbours =
                    [e \in DOMAIN self._edges_indices |->
                        edge_successors([_edges |-> self._edges,
                                         nodes_neighbours |-> locals.nodes_neighbours],
                                        self._edges_indices[e][2])]]
    /\ state' = "edges_neighbours"
    /\ UNCHANGED <<args, self, call, ret>>
    /\ UNCHANGED walk_vars
    /\ UNCHANGED log

\* self._nodes_alias; the constructor raises where alias_setup does, and no
\* object is made.
BuildNodesAlias ==
    /\ state = "edges_neighbours"
    /\ LET na == nodes_alias(locals)
       IN  IF \E n \in DOMAIN na : "error" \in DOMAIN na[n]
           THEN /\ state' = "build_failed"
                /\ self' = None
                /\ locals' = None
           ELSE /\ state' = "nodes_alias"
                /\ self' = [self EXCEPT !._nodes_alias = na]
                /\ locals' = locals
    /\ UNCHANGED <<args, call, ret>>
    /\ UNCHANGED walk_vars
    /\ UNCHANGED log

\* self._edges_alias, the last assignment of the constructor: the object is
\* returned to the caller.
BuildEdgesAlias ==
    /\ state = "nodes_alias"
    /\ LET st == [_edges |-> self._edges,
                  nodes_neighbours |-> locals.nodes_neighbours,
                  neighbours_weights |-> locals.neighbours_weights]
           ea == edges_alias(st, args.return_weight, args.explore_weight)
       IN  IF \E e \in DOMAIN ea : "error" \in DOMAIN ea[e]
           THEN /\ state' = "build_failed"
                /\ self' = None
                /\ locals' = None
           ELSE /\ state' = "built"
                /\ self' = [self EXCEPT !._edges_alias = ea]
                /\ locals' = [locals EXCEPT !.edges_probs =
                                edges_probs(st, args.return_weight, args.explore_weight)]
    /\ UNCHANGED <<args, call, ret>>
    /\ UNCHANGED walk_vars
    /\ UNCHANGED log

----------------------------------------------------------------------------
(* random_walk: the parallel walk kernel.                                  *)

\* The value of a cell of np.empty that was never written.
Uninit == -1

\* The results extract_random_node_neighbour(node) can return.
extract_random_node_neighbour(graph, node) ==
    LET t == graph._nodes_alias[node]
    IN  {t.neighbours[k] : k \in alias_draw(t.j, t.q)}

\* The results extract_random_edge_neighbour(edge) can return.
extract_random_edge_neighbour(graph, edge) ==
    LET t == graph._edges_alias[edge]
    IN  {t.neighbours[k] : k \in alias_draw(t.j, t.q)}

\* graph.nodes_number
NodesNumber ==
    /\ state = "built"
    /\ call' = [op |-> "nodes_number", args |-> <<>>]
    /\ ret' = Return(nodes_number(self))
    /\ UNCHANGED graph_vars
    /\ UNCHANGED walk_vars
    /\ UNCHANGED log

\* graph.extract_random_node_neighbour(node)
ExtractRandomNodeNeighbour ==
    /\ state = "built"
    /\ \E node \in DOMAIN self._nodes_alias :
        \E neighbour \in extract_random_node_neighbour(self, node) :
            /\ call' = [op |-> "extract_random_node_neighbour", args |-> <<node>>]
            /\ ret' = Return(neighbour)
    /\ UNCHANGED graph_vars
    /\ UNCHANGED walk_vars
    /\ UNCHANGED log

\* graph.extract_random_edge_neighbour(edge)
ExtractRandomEdgeNeighbour ==
    /\ state = "built"
    /\ \E edge \in DOMAIN self._edges_alias :
        \E neighbour \in extract_random_edge_neighbour(self, edge) :
            /\ call' = [op |-> "extract_random_edge_neighbour", args |-> <<edge>>]
            /\ ret' = Return(neighbour)
    /\ UNCHANGED graph_vars
    /\ UNCHANGED walk_vars
    /\ UNCHANGED log

\* The prange iterations (i, start_node) of a call.
Tasks(graph, num_walks) ==
    (0..(num_walks - 1)) \X (0..(nodes_number(graph) - 1))

\* walk_row with the repetition not scaled by the number of nodes.
walk_row_unscaled(graph, i, start_node) == i + start_node

\* The row of all_walks that the iteration (i, start_node) fills.
walk_row(graph, i, start_node) == i * nodes_number(graph) + start_node

\* cell_offset with rows one cell apart instead of walk_length cells apart.
cell_offset_packed(row, walk_length, index) == row + index

\* The position in the matrix's buffer of walk[index], walk being the row `row`.
cell_offset(row, walk_length, index) == row * walk_length + index

\* walk[index] = value, for the row of task t: the write lands on the buffer
\* position of the cell; outside the buffer it hits memory the matrix does not own.
write_cell(m, row, index, value) ==
    LET o == cell_offset(row, m.cols, index)
    IN  IF o \in DOMAIN m.data THEN [m EXCEPT !.data[o] = value] ELSE m

\* The writes of a step that are not cells of the row being filled.
stray_writes(m, t, row, indices) ==
    {[task |-> t, index |-> index, offset |-> cell_offset(row, m.cols, index),
      in_buffer |-> cell_offset(row, m.cols, index) \in DOMAIN m.data] :
        index \in {x \in indices : x >= m.cols}}

\* random_walk on an object whose constructor is still running.
RandomWalkUnbuilt ==
    /\ state \notin {"new", "build_failed"}
    /\ walk_state \in {"idle", "returned", "error"}
    /\ \E walk_length \in -1..MaxCells, num_walks \in 1..MaxCells :
        /\ nodes_number(self) * num_walks
               * (IF walk_length < 2 THEN 2 ELSE walk_length) <= MaxCells
        /\ walk_args' = [walk_length |-> walk_length, num_walks |-> num_walks]
        /\ IF walk_length < 0
           THEN /\ walk_state' = "error"
                /\ all_walks' = None
                /\ task' = None
           ELSE /\ walk_state' = "running"
                /\ all_walks' =
                     [rows |-> nodes_number(self) * num_walks,
                      cols |-> walk_length,
                      data |-> [o \in 0..(nodes_number(self) * num_walks * walk_length - 1)
                                  |-> Uninit]]
                /\ task' = [t \in Tasks(self, num_walks) |-> [index |-> 0, edge |-> 0]]
    /\ stray' = {}
    /\ UNCHANGED graph_vars
    /\ UNCHANGED query_vars
    /\ UNCHANGED log

\* random_walk(graph, walk_length, num_walks): np.empty and the start of the prange.
RandomWalk ==
    /\ state = "built"
    /\ walk_state \in {"idle", "returned", "error"}
    /\ \E walk_length \in -1..MaxCells, num_walks \in 1..MaxCells :
        /\ nodes_number(self) * num_walks
               * (IF walk_length < 2 THEN 2 ELSE walk_length) <= MaxCells
        /\ walk_args' = [walk_length |-> walk_length, num_walks |-> num_walks]
        /\ IF walk_length < 0
           THEN \* np.empty: negative dimensions are not allowed
                /\ walk_state' = "error"
                /\ all_walks' = None
                /\ task' = None
           ELSE /\ walk_state' = "running"
                /\ all_walks' =
                     [rows |-> nodes_number(self) * num_walks,
                      cols |-> walk_length,
                      data |-> [o \in 0..(nodes_number(self) * num_walks * walk_length - 1)
                                  |-> Uninit]]
                /\ task' = [t \in Tasks(self, num_walks) |-> [index |-> 0, edge |-> 0]]
    /\ stray' = {}
    /\ UNCHANGED graph_vars
    /\ UNCHANGED query_vars
    /\ UNCHANGED log

\* One iteration up to its inner loop: walk[0] = src = start_node;
\* walk[1] = dst = graph.extract_random_node_neighbour(start_node);
\* edge = graph.get_edge_id(src, dst)
WalkFirstStep ==
    /\ walk_state = "running"
    /\ \E t \in DOMAIN task :
        /\ task[t].index = 0
        /\ \E dst \in extract_random_node_neighbour(self, t[2]) :
            LET row == walk_row(self, t[1], t[2])
                edge == get_edge_id(self, t[2], dst)
                out == stray_writes(all_walks, t, row, {0, 1})
            IN  /\ all_walks' = write_cell(write_cell(all_walks, row, 0, t[2]), row, 1, dst)
                /\ stray' = stray \cup out
                /\ IF Raised(edge)
                   THEN /\ walk_state' = "error"
                        /\ task' = task
                   ELSE /\ task' = [task EXCEPT ![t] = [index |-> 2, edge |-> edge.value]]
                        \* a write outside the buffer may corrupt the heap and
                        \* end the process, or go unnoticed
                        /\ \/ walk_state' = "running"
                           \/ /\ \E w \in out : ~w.in_buffer
                              /\ walk_state' = "crashed"
    /\ UNCHANGED walk_args
    /\ UNCHANGED graph_vars
    /\ UNCHANGED query_vars
    /\ UNCHANGED log

\* One turn of the inner loop: edge = graph.extract_random_edge_neighbour(edge);
\* walk[index] = graph.get_edge_destination(edge)
WalkNextStep ==
    /\ walk_state = "running"
    /\ \E t \in DOMAIN task :
        /\ task[t].index >= 2
        /\ task[t].index < walk_args.walk_length
        /\ \E edge \in extract_random_edge_neighbour(self, task[t].edge) :
            /\ all_walks' = write_cell(all_walks, walk_row(self, t[1], t[2]), task[t].index,
                                       get_edge_destination(self, edge).value)
            /\ task' = [task EXCEPT ![t] = [index |-> task[t].index + 1, edge |-> edge]]
    /\ UNCHANGED <<walk_args, walk_state, stray>>
    /\ UNCHANGED graph_vars
    /\ UNCHANGED query_vars
    /\ UNCHANGED log

\* task_done holding from the second cell on, before the inner loop has run.
task_done_early(t) == task[t].index >= 2

\* An iteration is over when its inner loop has run to walk_length.
task_done(t) == task[t].index >= 2 /\ task[t].index >= walk_args.walk_length

\* return all_walks, once every iteration of the prange is over.
WalkReturn ==
    /\ walk_state = "running"
    /\ \A t \in DOMAIN task : task_done(t)
    /\ walk_state' = "returned"
    /\ UNCHANGED <<walk_args, all_walks, task, stray>>
    /\ UNCHANGED graph_vars
    /\ UNCHANGED query_vars
    /\ UNCHANGED log

----------------------------------------------------------------------------
(* The specifications.                                                     *)

\* The constructor, over every list of at most MaxEdges input edges with
\* weights up to MaxWeight, and the scenarios.
InitBuild ==
    /\ \/ IsArgs(args, NodeLists, MaxEdges, MaxWeight, BiasPairs)
       \/ args \in TriangleArgs \cup DuplicateArgs \cup {ChainArgs, CycleArgs}
    /\ NotConstructed

NextBuild == Build

SpecBuild == InitBuild /\ [][NextBuild]_vars

\* The constructor and the queries, over every list of at most MaxEdges input
\* edges of unit weight.
Init ==
    /\ \/ IsArgs(args, NodeLists, MaxEdges, 1, {<<1, 1>>})
       \/ args \in TriangleArgs \cup {ChainArgs, CycleArgs}
    /\ NotConstructed

Next ==
    \/ Build
    \/ HasEdge
    \/ GetEdgeId
    \/ GetEdgeDestination

Spec == Init /\ [][Next]_vars

\* The lists of node names of the graphs that are walked.
WalkNodeLists == {List0(<<"A">>), List0(<<"A", "B">>)}

\* The walk kernel.
InitWalk ==
    /\ \/ IsArgs(args, WalkNodeLists, MaxEdges, 1, {<<1, 1>>})
       \/ args \in WeightedArgs \cup TriangleArgs \cup {ChainArgs, CycleArgs}
    /\ NotConstructed

NextWalk ==
    \/ Build
    \/ RandomWalk
    \/ WalkFirstStep
    \/ WalkNextStep
    \/ WalkReturn

SpecWalk == InitWalk /\ [][NextWalk]_vars

\* The walk kernel with its scheduling: the threads of the prange keep running
\* the iterations that are not over, and the call returns once all are.
SpecWalkFair == SpecWalk /\ WF_vars(WalkFirstStep \/ WalkNextStep \/ WalkReturn)

\* The alias sampler on its own: alias_setup on every weight vector of at most
\* MaxVector entries up to MaxEntry, then draws on the table.
InitAlias ==
    /\ args = None
    /\ state = "no_graph"
    /\ self = None
    /\ locals = None
    /\ \E w \in WeightVectors(MaxVector, MaxEntry) :
        call = [op |-> "alias_setup", args |-> <<w>>]
    /\ ret = None
    /\ walk_args = None
    /\ walk_state = "idle"
    /\ all_walks = None
    /\ task = None
    /\ stray = {}
    /\ log = <<>>

NextAlias ==
    \/ AliasSetup
    \/ AliasDraw

SpecAlias == InitAlias /\ [][NextAlias]_vars

\* alias_setup called on its own and by the constructor.
InitSetup == InitAlias \/ InitBuild

NextSetup ==
    \/ AliasSetup
    \/ Build

SpecSetup == InitSetup /\ [][NextSetup]_vars

\* read_csv on every edge file of at most MaxEdges rows, with and without a
\* nodes file and the check for duplicates.
InitCsv ==
    /\ args = None
    /\ state = "no_graph"
    /\ self = None
    /\ locals = None
    /\ \E edge_file \in EdgeFiles(MaxEdges), node_path \in NodeFiles(MaxNodes),
          check_for_duplicates \in BOOLEAN :
        call = [op |-> "read_csv",
                args |-> [edge_file |-> edge_file, node_path |-> node_path,
                          check_for_duplicates |-> check_for_duplicates]]
    /\ ret = None
    /\ walk_args = None
    /\ walk_state = "idle"
    /\ all_walks = None
    /\ task = None
    /\ stray = {}
    /\ log = <<>>

NextCsv == ReadCsv

SpecCsv == InitCsv /\ [][NextCsv]_vars

\* A NodeTransformer and at most MaxCalls calls of fit and transform on it.
InitTransformer ==
    /\ args = None
    /\ state = "transformer"
    /\ self = NodeTransformer
    /\ locals = None
    /\ call = None
    /\ ret = None
    /\ walk_args = None
    /\ walk_state = "idle"
    /\ all_walks = None
    /\ task = None
    /\ stray = {}
    /\ log = <<>>

NextTransformer ==
    \/ Fit
    \/ Transform

SpecTransformer == InitTransformer /\ [][NextTransformer]_vars

\* The queries and the walk kernel together: calls on the index while a
\* random_walk runs and between random_walk calls, on the graphs of at most
\* MaxFrameEdges input edges and on the loop with an edge.
InitFrame ==
    /\ \/ IsArgs(args, WalkNodeLists, MaxFrameEdges, 1, {<<1, 1>>})
       \/ args \in WeightedArgs
    /\ NotConstructed

NextFrame ==
    \/ Build
    \/ NodesNumber
    \/ HasEdge
    \/ GetEdgeId
    \/ GetEdgeDestination
    \/ ExtractRandomNodeNeighbour
    \/ ExtractRandomEdgeNeighbour
    \/ RandomWalk
    \/ WalkFirstStep
    \/ WalkNextStep
    \/ WalkReturn

SpecFrame == InitFrame /\ [][NextFrame]_vars

\* The constructor step by step and the walk kernel: random_walk takes the
\* object the constructor returned.
InitSteps == InitWalk

NextSteps ==
    \/ BuildEdges
    \/ BuildEdgesIndices
    \/ BuildEdgesNeighbours
    \/ BuildNodesAlias
    \/ BuildEdgesAlias
    \/ RandomWalk
    \/ WalkFirstStep
    \/ WalkNextStep
    \/ WalkReturn

SpecSteps == InitSteps /\ [][NextSteps]_vars

----------------------------------------------------------------------------
(* Definitions the properties use.                                         *)

NodeIds == DOMAIN self._nodes_alias
EdgeIds == DOMAIN self._edges_indices

\* The node ids of input edge k.
InputSrc(k) == nodes_mapping(args.nodes)[args.edges[k][1]]
InputDst(k) == nodes_mapping(args.nodes)[args.edges[k][2]]

\* The position of node v in the adjacency list of u.
PositionOf(u, v) ==
    CHOOSE k \in DOMAIN locals.nodes_neighbours[u] : locals.nodes_neighbours[u][k] = v

\* The weight stored for the edge (u, v).
StoredWeight(u, v) == locals.neighbours_weights[u][PositionOf(u, v)]

\* (u, v) is a stored edge.
Stored(u, v) == has_edge(self, <<u, v>>)

\* n * den times the probability that a draw on the table t returns position k:
\* prob_value[k], plus 1 - prob_value[i] for every bin i whose alias is k.
RECURSIVE AliasMassTo(_, _, _)
AliasMassTo(t, k, n) ==
    IF n = 0 THEN 0
    ELSE AliasMassTo(t, k, n - 1)
         + (IF n - 1 = k THEN t.q.num[k] ELSE 0)
         + (IF t.j[n - 1] = k THEN t.q.den - t.q.num[n - 1] ELSE 0)

AliasMass(t, k) == AliasMassTo(t, k, Len0(t.j))

\* The draws of table t follow the vector w: position k has probability
\* w.num[k] / Sum(w.num).
DrawsFollow(t, w) ==
    /\ DOMAIN t.neighbours = DOMAIN w.num
    /\ DOMAIN t.j = DOMAIN w.num
    /\ DOMAIN t.q.num = DOMAIN w.num
    /\ \A k \in DOMAIN w.num :
        AliasMass(t, k) * Sum(w.num) = w.num[k] * Len0(t.j) * t.q.den

----------------------------------------------------------------------------
(* The properties.                                                         *)

C2_LookupsAgree ==
    state = "built" =>
        \A u \in NodeIds, v \in NodeIds :
            /\ has_edge(self, <<u, v>>) <=> ~Raised(get_edge_id(self, u, v))
            /\ ~Raised(get_edge_id(self, u, v)) =>
                get_edge_destination(self, get_edge_id(self, u, v).value) = Return(v)

\* get_edge_id has returned the id of an edge that is not the first one, on an
\* index that misses some other pair.
C2_Witness ==
    /\ state = "built"
    /\ call # None
    /\ call.op = "get_edge_id"
    /\ ~Raised(ret)
    /\ ret.value >= 1
    /\ \E u \in NodeIds, v \in NodeIds : ~has_edge(self, <<u, v>>)

\* Input edge k joins the nodes of input edge h, in either direction.
SamePair(k, h) ==
    \/ InputSrc(h) = InputSrc(k) /\ InputDst(h) = InputDst(k)
    \/ InputSrc(h) = InputDst(k) /\ InputDst(h) = InputSrc(k)

\* Input edge h is the reverse of input edge k: it is written the other way
\* round, or it joins the same nodes and is undirected.
ReverseOf(k, h) ==
    \/ InputSrc(h) = InputDst(k) /\ InputDst(h) = InputSrc(k)
    \/ SamePair(k, h) /\ ~args.directed[h]

\* C3 as stated: after build every undirected input edge (u, v) is stored both
\* ways with equal weights, whatever the rest of the input; a directed input
\* edge whose reverse is nowhere in the input is stored one way only.
C3_AsStated ==
    state = "built" =>
        \A k \in DOMAIN args.edges :
            LET u == InputSrc(k)
                v == InputDst(k)
            IN  /\ ~args.directed[k] =>
                    /\ Stored(u, v)
                    /\ Stored(v, u)
                    /\ StoredWeight(u, v) = StoredWeight(v, u)
                /\ (args.directed[k] /\ \A h \in DOMAIN args.edges : ~ReverseOf(k, h)) =>
                    /\ Stored(u, v)
                    /\ ~Stored(v, u)

\* C3, amended: an undirected input edge (u, v) that no earlier input edge
\* joins the nodes of is stored both ways with its own weight, whatever comes
\* after it; a directed input edge whose reverse is nowhere in the input is
\* stored one way only.
C3_FirstOccurrenceStoredBothWays ==
    state = "built" =>
        \A k \in DOMAIN args.edges :
            LET u == InputSrc(k)
                v == InputDst(k)
            IN  /\ (~args.directed[k] /\ \A h \in DOMAIN args.edges : h < k => ~SamePair(k, h)) =>
                    /\ Stored(u, v)
                    /\ Stored(v, u)
                    /\ StoredWeight(u, v) = args.weights[k]
                    /\ StoredWeight(v, u) = args.weights[k]
                /\ (args.directed[k] /\ \A h \in DOMAIN args.edges : ~ReverseOf(k, h)) =>
                    /\ Stored(u, v)
                    /\ ~Stored(v, u)

\* A built index whose input holds an undirected edge between two nodes,
\* followed by another edge, and a directed edge without reverse.
C3_Witness ==
    /\ state = "built"
    /\ \E k \in DOMAIN args.edges :
        /\ ~args.directed[k]
        /\ InputSrc(k) # InputDst(k)
        /\ \A h \in DOMAIN args.edges : h < k => ~SamePair(k, h)
        /\ Stored(InputDst(k), InputSrc(k))
    /\ \E k \in DOMAIN args.edges :
        /\ args.directed[k]
        /\ \A h \in DOMAIN args.edges : ~ReverseOf(k, h)
        /\ ~Stored(InputDst(k), InputSrc(k))

\* The graph has no edge from a node to itself.
NoSelfLoops == \A u \in NodeIds : ~Stored(u, u)

\* The multiplier of the candidate (cur, next) after the edge (prev, cur).
Multiplier(prev, next) ==
    IF Stored(next, prev) THEN 1
    ELSE IF next = prev THEN args.return_weight
    ELSE args.explore_weight

\* C4: without self-loops, the unnormalized weight of the candidate
\* (cur, next) after the edge (prev, cur) is the weight of (cur, next) times 1
\* if (next, prev) is stored, return_weight if next = prev and explore_weight
\* otherwise; the table of (prev, cur) draws by this vector over its sum.
C4_SecondOrderWeights ==
    (state = "built" /\ NoSelfLoops) =>
        \A e \in EdgeIds :
            LET prev == self._edges_indices[e][1]
                cur == self._edges_indices[e][2]
                succ == locals.edges_neighbours[e]
                probs == locals.edges_probs[e]
            IN  /\ \A k \in DOMAIN succ :
                    LET next == self._edges_indices[succ[k]][2]
                    IN  probs.num[k] = StoredWeight(cur, next) * Multiplier(prev, next)
                /\ probs.den = Sum(probs.num)
                /\ DrawsFollow(self._edges_alias[e], probs)

\* C5: with return_weight = explore_weight = 1 the successors (cur, next) of
\* every stored edge (prev, cur) are drawn as the neighbours of cur are: next
\* with probability weight(cur, next) over the sum of the weights of cur's
\* edges, whatever prev.
C5_UnbiasedIsFirstOrder ==
    (state = "built" /\ args.return_weight = 1 /\ args.explore_weight = 1) =>
        \A e \in EdgeIds :
            LET cur == self._edges_indices[e][2]
                succ == locals.edges_neighbours[e]
                probs == locals.edges_probs[e]
                w == locals.neighbours_weights[cur]
                et == self._edges_alias[e]
                nt == self._nodes_alias[cur]
            IN  /\ DOMAIN succ = DOMAIN locals.nodes_neighbours[cur]
                /\ \A k \in DOMAIN succ :
                    LET next == self._edges_indices[succ[k]][2]
                        p == PositionOf(cur, next)
                    IN  /\ self._edges_indices[succ[k]][1] = cur
                        \* probs/total gives next the share of its weight
                        /\ probs.num[k] * Sum(w) = StoredWeight(cur, next) * probs.den
                        \* and so do the draws of the edge table and of cur's table
                        /\ AliasMass(et, k) * Sum(w)
                             = StoredWeight(cur, next) * Len0(et.j) * et.q.den
                        /\ AliasMass(et, k) * Len0(nt.j) * nt.q.den
                             = AliasMass(nt, p) * Len0(et.j) * et.q.den

\* An unbiased index with an edge whose destination has two neighbours of
\* different weights.
C5_Witness ==
    /\ state = "built"
    /\ args.return_weight = 1
    /\ args.explore_weight = 1
    /\ \E e \in EdgeIds :
        LET w == locals.neighbours_weights[self._edges_indices[e][2]]
        IN  \E k \in DOMAIN w, h \in DOMAIN w : w[k] # w[h]

\* C6: on the undirected triangle A-B-C with equal weights, return_weight 10
\* and explore_weight 1, the table of the edge (A, B) gives the step back
\* (B, A) a strictly lower probability than the step on to (B, C).
C6_BackStepLessLikely ==
    (state = "built" /\ args \in TriangleArgs) =>
        LET e == get_edge_id(self, 0, 1).value
            t == self._edges_alias[e]
            back == CHOOSE k \in DOMAIN t.neighbours :
                        t.neighbours[k] = get_edge_id(self, 1, 0).value
            on == CHOOSE k \in DOMAIN t.neighbours :
                        t.neighbours[k] = get_edge_id(self, 1, 2).value
        IN  AliasMass(t, back) < AliasMass(t, on)

\* The cells of row `row` of the matrix m, in order.
Row(m, row) == [index \in 0..(m.cols - 1) |-> m.data[cell_offset(row, m.cols, index)]]

\* C7: on the chain A -> B -> C -> D with unit weights and both biases 1, the
\* index is built, random_walk with walk_length 3 and num_walks 1 completes,
\* and the row of A is [A, B, C] whatever is drawn.
C7_ChainWalkIsDetermined ==
    args = ChainArgs =>
        /\ state # "build_failed"
        /\ walk_state \notin {"error", "crashed"}
        /\ (/\ walk_state = "returned"
            /\ walk_args = [walk_length |-> 3, num_walks |-> 1]) =>
                Row(all_walks, 0) = List0(<<0, 1, 2>>)

\* The nodes without out-neighbour in the input graph, and the others.
InputAdjacency == insert_edges(args, Len0(args.edges)).nodes_neighbours
Sinks == {s \in DOMAIN InputAdjacency : Len0(InputAdjacency[s]) = 0}
NonSinks == DOMAIN InputAdjacency \ Sinks

\* C8: a start node without out-neighbour is handled on its own: no draw is
\* made on its empty table, and the rows of the other start nodes are still
\* produced, so a graph with such a node and some other node can be indexed
\* and walked, and a returned matrix holds the full rows of the other nodes.
C8_SinkFailureIsConfined ==
    (state # "new" /\ Sinks # {} /\ NonSinks # {}) =>
        /\ state = "built"
        /\ walk_state \notin {"error", "crashed"}
        /\ (walk_state = "returned" /\ walk_args.walk_length >= 2) =>
                \A r \in 0..(walk_args.num_walks - 1), s \in NonSinks :
                    \A index \in 0..(walk_args.walk_length - 1) :
                        Row(all_walks, walk_row(self, r, s))[index] \in NodeIds

\* C9: a random_walk call with walk_length below 2 raises before any cell is
\* written: it runs no iteration, returns no matrix, and writes nothing
\* outside a row.
C9_ShortWalkLengthRejected ==
    (walk_args # None /\ walk_args.walk_length < 2) =>
        /\ walk_state \in {"running", "error"}
        /\ stray = {}
        /\ walk_state = "running" => \A t \in DOMAIN task : task[t].index = 0

\* C10: a get_edge_id(src, dst) on a pair that is not stored raises KeyError,
\* returns no id, and leaves the index as it was.
C10_MissingPairRaises ==
    [][GetEdgeId =>
        (call'.args \notin DOMAIN self._edges.val =>
            /\ ret' = KeyError
            /\ self' = self
            /\ locals' = locals)]_vars

\* get_edge_id was called on a pair that is not stored.
C10_Witness ==
    /\ state = "built"
    /\ call # None
    /\ call.op = "get_edge_id"
    /\ call.args \notin DOMAIN self._edges.val
    /\ Raised(ret)

\* The buffer positions of the cells index from..(to - 1) of the row of the
\* iteration t = (r, s): row r * nodes_number + s.
CellsOf(t, from, to) ==
    {(t[1] * nodes_number(self) + t[2]) * walk_args.walk_length + x : x \in from..(to - 1)}

\* C11: while a call with walk_length >= 2 runs, every step is the step of one
\* iteration (r, s): it writes only cells of row r * nodes_number + s that were
\* never written before, what it writes is fixed by the iteration's own start
\* node and draw, and every other cell and every other iteration stay as they
\* are; the return changes no cell.  So the returned matrix is the same under
\* every interleaving of the iterations.
C11_IterationsOwnTheirRow ==
    [][(walk_state = "running" /\ walk_args.walk_length >= 2) =>
        /\ walk_state' = "returned" => all_walks' = all_walks
        /\ walk_state' = "running" =>
            \E t \in DOMAIN task :
                /\ \A u \in DOMAIN task \ {t} : task'[u] = task[u]
                /\ task'[t].index > task[t].index
                /\ \A o \in DOMAIN all_walks.data :
                    IF o \in CellsOf(t, task[t].index, task'[t].index)
                    THEN /\ all_walks.data[o] = Uninit
                         /\ all_walks'.data[o] =
                              IF o \in CellsOf(t, 0, 1) THEN t[2]
                              ELSE get_edge_destination(self, task'[t].edge).value
                    ELSE all_walks'.data[o] = all_walks.data[o]
                /\ CellsOf(t, task[t].index, task'[t].index) \subseteq DOMAIN all_walks.data]_vars

\* Two iterations of one call are both past their second cell and both short
\* of their last one: their steps have interleaved.
C11_Witness ==
    /\ walk_state = "running"
    /\ walk_args.walk_length >= 3
    /\ \E t \in DOMAIN task, u \in DOMAIN task :
        /\ t # u
        /\ task[t].index = 2
        /\ task[u].index = 2

\* C12: the queries and random_walk leave the index as the constructor made
\* it: after any calls, between or during walks, the edge map, the edge list
\* and the node and edge alias tables are those of the end of construction.
C12_IndexIsNeverMutated ==
    state = "built" =>
        LET built == Graph(args).self
        IN  /\ self._edges = built._edges
            /\ self._edges_indices = built._edges_indices
            /\ self._nodes_alias = built._nodes_alias
            /\ self._edges_alias = built._edges_alias

\* A query on a pair that is not stored was answered while a walk was half
\* written.
C12_Witness ==
    /\ state = "built"
    /\ walk_state = "running"
    /\ \E t \in DOMAIN task : task[t].index >= 2
    /\ \E t \in DOMAIN task : ~task_done(t)
    /\ call # None
    /\ call.op = "get_edge_id"
    /\ Raised(ret)

\* C13: a random_walk call that runs ends: it returns or fails as a whole;
\* and the matrix it returns has nodes_number * num_walks * walk_length cells,
\* every one written with a node id, none left as allocated.
C13_ReturnsFullMatrixOrFails ==
    /\ [](walk_state = "returned" =>
            /\ DOMAIN all_walks.data =
                 0..(nodes_number(self) * walk_args.num_walks * walk_args.walk_length - 1)
            /\ \A o \in DOMAIN all_walks.data :
                /\ all_walks.data[o] # Uninit
                /\ all_walks.data[o] \in NodeIds)
    /\ (walk_state = "running" ~> walk_state \in {"returned", "error", "crashed"})

\* A call of several iterations with an inner loop has returned its matrix.
C13_Witness ==
    /\ walk_state = "returned"
    /\ walk_args.walk_length >= 3
    /\ Cardinality(DOMAIN task) >= 2
    /\ \A o \in DOMAIN all_walks.data : all_walks.data[o] \in NodeIds

\* The vector w has an entry, no negative entry and a positive sum.
ValidWeights(w) ==
    /\ Len0(w.num) >= 1
    /\ \A i \in DOMAIN w.num : w.num[i] >= 0
    /\ Sum(w.num) > 0

\* C14: on a vector w of n >= 1 non-negative weights of positive sum,
\* alias_setup returns a table of n bins with every prob_value in [0, 1] and
\* every prob_index a bin, on which a draw returns i with probability
\* (prob_value[i] + the sum of 1 - prob_value[j] over the bins j of alias i) / n
\* = w[i] / sum(w), exactly; the indices a draw can return are those of
\* positive weight.
C14_DrawsAreExact ==
    (/\ call # None
     /\ call.op = "alias_setup"
     /\ ret # None
     /\ ValidWeights(call.args[1])) =>
        LET w == call.args[1]
            n == Len0(w.num)
        IN  /\ ~Raised(ret)
            /\ DOMAIN ret.prob_index = 0..(n - 1)
            /\ DOMAIN ret.prob_value.num = 0..(n - 1)
            /\ ret.prob_value.den > 0
            /\ \A i \in 0..(n - 1) :
                /\ ret.prob_index[i] \in 0..(n - 1)
                /\ ret.prob_value.num[i] >= 0
                /\ ret.prob_value.num[i] <= ret.prob_value.den
                /\ AliasMass([j |-> ret.prob_index, q |-> ret.prob_value], i) * Sum(w.num)
                     = w.num[i] * n * ret.prob_value.den
            /\ alias_draw(ret.prob_index, ret.prob_value) = {i \in 0..(n - 1) : w.num[i] > 0}

\* alias_setup has returned the table of three weights, one of them zero and
\* the other two different, and some bin of the table has an alias.
C14_Witness ==
    /\ call # None
    /\ call.op = "alias_setup"
    /\ ret # None
    /\ ~Raised(ret)
    /\ LET w == call.args[1]
       IN  /\ Len0(w.num) = 3
           /\ \E i \in DOMAIN w.num : w.num[i] = 0
           /\ \E i \in DOMAIN w.num, k \in DOMAIN w.num : 0 < w.num[i] /\ w.num[i] < w.num[k]
    /\ \E i \in DOMAIN ret.prob_index :
        /\ ret.prob_value.num[i] < ret.prob_value.den
        /\ ret.prob_index[i] # i

\* C15: alias_setup on a vector that is empty, has a negative entry or sums to
\* zero raises and returns no table.  So it does on the vectors the
\* constructor hands it: the empty weight list of a node without out-edges
\* and the empty successor vector of an edge into such a node both raise, the
\* construction fails and no table of the index is kept.
C15_InvalidVectorIsRejected ==
    /\ (/\ call # None
        /\ call.op = "alias_setup"
        /\ ret # None
        /\ ~ValidWeights(call.args[1])) =>
            /\ ret = AliasError
            /\ "prob_index" \notin DOMAIN ret
    /\ (args # None /\ state # "new") =>
        LET st == insert_edges(args, Len0(args.edges))
            indices == edges_indices(st._edges)
            probs == edges_probs(st, args.return_weight, args.explore_weight)
        IN  /\ \A n \in DOMAIN st.neighbours_weights :
                Len0(st.neighbours_weights[n]) = 0 =>
                    /\ alias_setup([num |-> st.neighbours_weights[n], den |-> 1]) = AliasError
                    /\ nodes_alias(st)[n] = AliasError
                    /\ state = "build_failed"
                    /\ self = None
            /\ \A e \in DOMAIN indices :
                Len0(st.nodes_neighbours[indices[e][2]]) = 0 =>
                    /\ Len0(probs[e].num) = 0
                    /\ alias_setup(probs[e]) = AliasError
                    /\ edges_alias(st, args.return_weight, args.explore_weight)[e] = AliasError
                    /\ state = "build_failed"
                    /\ self = None

\* The constructor has run on a graph with an edge into a node without
\* out-edges, from a node that has some.
C15_Witness ==
    /\ args # None
    /\ state = "build_failed"
    /\ \E k \in DOMAIN args.edges :
        /\ InputDst(k) \in Sinks
        /\ InputSrc(k) \in NonSinks

\* Rows k and h of the edge file of the call have the same source and the
\* same destination.
SameEndpoints(k, h) ==
    LET rows == call.args.edge_file.rows
    IN  rows[k].subject = rows[h].subject /\ rows[k].object = rows[h].object

\* C16: with check_for_duplicates, read_csv raises ValueError on every edge
\* file with two rows of the same (source, destination), and hands no
\* arguments to Graph; so the edges it hands to Graph never hold the same
\* ordered pair twice.
C16_DuplicatePairsAreRejected ==
    (/\ call # None
     /\ call.op = "read_csv"
     /\ ret # None
     /\ call.args.check_for_duplicates) =>
        /\ (\E k \in DOMAIN call.args.edge_file.rows, h \in DOMAIN call.args.edge_file.rows :
                k # h /\ SameEndpoints(k, h)) => ret = ValueError
        /\ ~Raised(ret) =>
            \A k \in DOMAIN ret.value.sources_names, h \in DOMAIN ret.value.sources_names :
                (/\ ret.value.sources_names[k] = ret.value.sources_names[h]
                 /\ ret.value.destinations_names[k] = ret.value.destinations_names[h])
                    => k = h

\* Some call of fit in the log did not raise.
FitSucceeded(l) == \E i \in 1..Len(l) : l[i].op = "fit" /\ ~l[i].raised

\* C17: whatever calls came before, transform raises ValueError exactly when
\* no earlier fit succeeded, and fit on a value that is not a DataFrame raises
\* ValueError and leaves the stored embedding as it was: once fitted, the
\* transformer keeps an embedding.
C17_FittedOnlyByDataFrame ==
    [][log' # log =>
        /\ call'.op = "transform" => (ret' = ValueError <=> ~FitSucceeded(log))
        /\ (call'.op = "fit" /\ call'.args[1].type # "DataFrame") =>
            /\ ret' = ValueError
            /\ self'._embedding = self._embedding
        /\ FitSucceeded(log) => self'._embedding # None]_vars

\* A fit succeeded, then a fit on another value raised, then a transform
\* returned rows of the embedding of the first fit.
C17_Witness ==
    /\ Len(log) = 3
    /\ log[1] = [op |-> "fit", raised |-> FALSE]
    /\ log[2] = [op |-> "fit", raised |-> TRUE]
    /\ log[3] = [op |-> "transform", raised |-> FALSE]
    /\ ret = Return(List0(<<<<3, 4>>, <<1, 2>>>>))

\* The ordered pairs the insertion loop tries to store for the input edges
\* 0..(k - 1), in order: (src, dst) of each edge, then (dst, src) if the edge
\* is undirected.
RECURSIVE InsertionAttempts(_)
InsertionAttempts(k) ==
    IF k = 0 THEN <<>>
    ELSE LET before == Append(InsertionAttempts(k - 1), <<InputSrc(k - 1), InputDst(k - 1)>>)
         IN  IF args.directed[k - 1] THEN before
             ELSE Append(before, <<InputDst(k - 1), InputSrc(k - 1)>>)

\* The elements of the sequence s without those that came earlier in it.
RECURSIVE FirstOccurrences(_)
FirstOccurrences(s) ==
    IF s = <<>> THEN <<>>
    ELSE LET before == FirstOccurrences(SubSeq(s, 1, Len(s) - 1))
         IN  IF \E i \in 1..Len(before) : before[i] = s[Len(s)]
             THEN before ELSE Append(before, s[Len(s)])

\* C19: whatever the input edges, the insertion loop gives the ordered pairs
\* it stores the ids 0, 1, 2, ... in the order in which they are first
\* inserted, one id per pair and one pair per id; a built index holds that map,
\* and position e of its edge list is the pair the map sends to e.
C19_EdgeIdsAreABijection ==
    state # "new" =>
        LET st == insert_edges(args, Len0(args.edges))
            E == Cardinality(DOMAIN st._edges.val)
            inserted == List0(FirstOccurrences(InsertionAttempts(Len0(args.edges))))
        IN  /\ st.i = E
            /\ {st._edges.val[p] : p \in DOMAIN st._edges.val} = 0..(E - 1)
            /\ \A p \in DOMAIN st._edges.val, r \in DOMAIN st._edges.val :
                st._edges.val[p] = st._edges.val[r] => p = r
            /\ DOMAIN inserted = 0..(E - 1)
            /\ \A e \in 0..(E - 1) : st._edges.val[inserted[e]] = e
            /\ state = "built" =>
                /\ self._edges = st._edges
                /\ DOMAIN self._edges_indices = 0..(E - 1)
                /\ \A e \in 0..(E - 1) :
                    /\ self._edges_indices[e] = inserted[e]
                    /\ self._edges_indices[e] \in DOMAIN self._edges.val
                    /\ self._edges.val[self._edges_indices[e]] = e

\* A built index of three edges or more whose input tried to store some pair
\* twice and held an undirected edge between two nodes.
C19_Witness ==
    /\ state = "built"
    /\ Len0(self._edges_indices) >= 3
    /\ Len(InsertionAttempts(Len0(args.edges))) > Len0(self._edges_indices)
    /\ \E k \in DOMAIN args.edges : ~args.directed[k] /\ InputSrc(k) # InputDst(k)

\* The arguments a without the input edge k.
WithoutEdge(a, k) ==
    LET drop(l) == [h \in 0..(Len0(l) - 2) |-> IF h < k THEN l[h] ELSE l[h + 1]]
    IN  [a EXCEPT !.edges = drop(a.edges), !.weights = drop(a.weights),
                  !.directed = drop(a.directed)]

\* Input edge k is directed and repeats the earlier directed input edge h.
RepeatsDirected(k, h) ==
    /\ h < k
    /\ args.directed[h]
    /\ args.directed[k]
    /\ InputSrc(h) = InputSrc(k)
    /\ InputDst(h) = InputDst(k)

C21_SuccessorsFollowAdjacency ==
    state # "new" =>
        LET st == insert_edges(args, Len0(args.edges))
            indices == edges_indices(st._edges)
            succ == edges_neighbours(st)
        IN  /\ DOMAIN succ = DOMAIN indices
            /\ \A p \in DOMAIN st._edges.val :
                LET e == st._edges.val[p]
                    adj == st.nodes_neighbours[p[2]]
                IN  /\ DOMAIN succ[e] = DOMAIN adj
                    /\ Len0(succ[e]) = Cardinality({w \in DOMAIN st.nodes_neighbours :
                                                      has_edge(st, <<p[2], w>>)})
                    /\ \A k \in DOMAIN adj :
                        /\ get_edge_id(st, p[2], adj[k]) = Return(succ[e][k])
                        /\ succ[e][k] \in DOMAIN indices
                        /\ indices[succ[e][k]][1] = p[2]
                        /\ indices[succ[e][k]][2] = adj[k]
            /\ state = "built" =>
                /\ locals.edges_neighbours = succ
                /\ \A e \in EdgeIds : self._edges_alias[e].neighbours = succ[e]

\* A built index with an edge into a node of two out-neighbours or more, one
\* of the edges out of that node stored before it and one after it.
C21_Witness ==
    /\ state = "built"
    /\ \E e \in EdgeIds :
        /\ Len0(locals.edges_neighbours[e]) >= 2
        /\ \E k \in DOMAIN locals.edges_neighbours[e] : locals.edges_neighbours[e][k] < e
        /\ \E k \in DOMAIN locals.edges_neighbours[e] : locals.edges_neighbours[e][k] > e

\* C22: for every stored edge (prev, cur) whose reverse (cur, prev) is stored,
\* the unnormalized weight of the candidate (cur, prev), the step straight
\* back, is the weight of (cur, prev) times return_weight, in every graph,
\* also when prev has an edge to itself.
C22_BackStepTimesReturnWeight ==
    state = "built" =>
        \A e \in EdgeIds :
            LET prev == self._edges_indices[e][1]
                cur == self._edges_indices[e][2]
            IN  Stored(cur, prev) =>
                    locals.edges_probs[e].num[PositionOf(cur, prev)]
                        = StoredWeight(cur, prev) * args.return_weight

\* C23: also on directed graphs, for every stored edge (prev, cur) and every
\* candidate (cur, next) with next # prev, the unnormalized weight is the
\* weight of (cur, next) times 1 when (prev, next) is a stored edge, and times
\* explore_weight when it is not.
C23_OutNeighbourOfPrevKeepsWeight ==
    state = "built" =>
        \A e \in EdgeIds :
            LET prev == self._edges_indices[e][1]
                cur == self._edges_indices[e][2]
                succ == locals.edges_neighbours[e]
            IN  \A k \in DOMAIN succ :
                    LET next == self._edges_indices[succ[k]][2]
                    IN  next # prev =>
                            locals.edges_probs[e].num[k]
                                = StoredWeight(cur, next)
                                    * (IF Stored(prev, next) THEN 1 ELSE args.explore_weight)

\* C24: on a built index, whose nodes all have an out-neighbour, a call with
\* walk_length >= 0 never fails in get_edge_id(start, walk[1]); and with
\* walk_length >= 2 the cells an iteration has written so far are a path of
\* the graph: every two consecutive cells are a stored edge, the iteration's
\* current edge is the edge between its last two cells and its destination is
\* the last cell written.  So every row of a returned matrix is a path.
C24_RowsArePaths ==
    (state = "built" /\ walk_args # None /\ walk_args.walk_length >= 0) =>
        /\ walk_state # "error"
        /\ \A n \in NodeIds : Len0(locals.nodes_neighbours[n]) >= 1
        /\ (walk_args.walk_length >= 2 /\ walk_state \in {"running", "returned"}) =>
            \A t \in DOMAIN task :
                task[t].index >= 2 =>
                    LET walk == Row(all_walks, walk_row(self, t[1], t[2]))
                        last == task[t].index - 1
                    IN  /\ \A i \in 0..(last - 1) : Stored(walk[i], walk[i + 1])
                        /\ task[t].edge \in EdgeIds
                        /\ self._edges_indices[task[t].edge] = <<walk[last - 1], walk[last]>>
                        /\ get_edge_destination(self, task[t].edge) = Return(walk[last])
        /\ (walk_args.walk_length >= 2 /\ walk_state = "returned") =>
            \A row \in 0..(all_walks.rows - 1) :
                \A i \in 0..(walk_args.walk_length - 2) :
                    Stored(Row(all_walks, row)[i], Row(all_walks, row)[i + 1])

\* A returned matrix with a row over three different nodes.
C24_Witness ==
    /\ walk_state = "returned"
    /\ walk_args.walk_length >= 3
    /\ \E row \in 0..(all_walks.rows - 1) :
        LET walk == Row(all_walks, row)
        IN  Cardinality({walk[0], walk[1], walk[2]}) = 3

\* C25: a start node with an out-neighbour gets its row whatever the
\* out-degrees of the other nodes, and without a draw from an empty table: a
\* graph with such a node can be indexed and walked, the first step of the
\* node's iteration draws from a table with a bin, and every edge on which the
\* iteration is about to call extract_random_edge_neighbour has a successor
\* and a table with a bin for it.
C25_NoDrawFromEmptyTable ==
    /\ (state # "new" /\ NonSinks # {}) => state = "built"
    /\ (walk_state = "running" /\ walk_args # None) =>
        \A t \in DOMAIN task :
            Len0(locals.nodes_neighbours[t[2]]) >= 1 =>
                /\ task[t].index = 0 =>
                    /\ Len0(self._nodes_alias[t[2]].j) >= 1
                    /\ extract_random_node_neighbour(self, t[2]) # {}
                /\ (task[t].index >= 2 /\ task[t].index < walk_args.walk_length) =>
                    /\ task[t].edge \in EdgeIds
                    /\ Len0(locals.edges_neighbours[task[t].edge]) >= 1
                    /\ Len0(self._edges_alias[task[t].edge].neighbours) >= 1
                    /\ Len0(self._edges_alias[task[t].edge].j) >= 1
                    /\ extract_random_edge_neighbour(self, task[t].edge) # {}

\* The table t is a triple of three lists of the same length, with every
\* prob_value in [0, 1] and every prob_index a position of the targets.
WellFormedTable(t) ==
    /\ DOMAIN t.neighbours = 0..(Len0(t.neighbours) - 1)
    /\ DOMAIN t.j = DOMAIN t.neighbours
    /\ DOMAIN t.q.num = DOMAIN t.neighbours
    /\ t.q.den > 0
    /\ \A i \in DOMAIN t.neighbours :
        /\ 0 <= t.q.num[i]
        /\ t.q.num[i] <= t.q.den
        /\ t.j[i] \in DOMAIN t.neighbours

\* C26: on a built index every node table and every edge table is a triple
\* (targets, prob_index, prob_value) of three lists of equal length, every
\* prob_value in [0, 1] and every prob_index a position of the targets; the
\* targets of the table of node u are the adjacency list of u and the targets
\* of the table of edge e are the successor list of e.
C26_TablesAreWellFormed ==
    state = "built" =>
        /\ DOMAIN self._nodes_alias = DOMAIN locals.nodes_neighbours
        /\ DOMAIN self._edges_alias = DOMAIN self._edges_indices
        /\ \A u \in NodeIds :
            /\ WellFormedTable(self._nodes_alias[u])
            /\ self._nodes_alias[u].neighbours = locals.nodes_neighbours[u]
            /\ Len0(self._nodes_alias[u].j) = Len0(locals.neighbours_weights[u])
        /\ \A e \in EdgeIds :
            /\ WellFormedTable(self._edges_alias[e])
            /\ self._edges_alias[e].neighbours = locals.edges_neighbours[e]
            /\ self._edges_alias[e].neighbours
                 = edge_successors(insert_edges(args, Len0(args.edges)),
                                   self._edges_indices[e][2])

\* A built index with a node table and an edge table of two bins or more, the
\* node table with a prob_value strictly between 0 and 1.
C26_Witness ==
    /\ state = "built"
    /\ \E u \in NodeIds :
        /\ Len0(self._nodes_alias[u].j) >= 2
        /\ \E i \in DOMAIN self._nodes_alias[u].j :
            /\ 0 < self._nodes_alias[u].q.num[i]
            /\ self._nodes_alias[u].q.num[i] < self._nodes_alias[u].q.den
    /\ \E e \in EdgeIds : Len0(self._edges_alias[e].j) >= 2

\* The entries of the vector w are all equal and positive; a vector of one
\* positive entry is such a vector.
EqualPositive(w) ==
    /\ Len0(w.num) >= 1
    /\ \A i \in DOMAIN w.num : w.num[i] > 0 /\ w.num[i] = w.num[0]

\* C27: on a vector whose entries are all equal and positive, and on a vector
\* of one positive entry, alias_setup returns a table whose every prob_value
\* is exactly 1, so a draw returns the bin it chose and never an alias: the
\* results of a draw are all the bins.  So it is for the table of a node of a
\* built index whose edges all have the same weight.
C27_EqualWeightsNeverAlias ==
    /\ (/\ call # None
        /\ call.op = "alias_setup"
        /\ ret # None
        /\ EqualPositive(call.args[1])) =>
            /\ ~Raised(ret)
            /\ DOMAIN ret.prob_value.num = DOMAIN call.args[1].num
            /\ \A i \in DOMAIN ret.prob_value.num :
                ret.prob_value.num[i] = ret.prob_value.den
            /\ {i \in DOMAIN ret.prob_index : ret.prob_value.num[i] < ret.prob_value.den} = {}
            /\ alias_draw(ret.prob_index, ret.prob_value) = DOMAIN call.args[1].num
    /\ (args # None /\ state = "built") =>
        \A u \in NodeIds :
            EqualPositive([num |-> locals.neighbours_weights[u], den |-> 1]) =>
                /\ \A i \in DOMAIN self._nodes_alias[u].j :
                    self._nodes_alias[u].q.num[i] = self._nodes_alias[u].q.den
                /\ extract_random_node_neighbour(self, u) = Range0(locals.nodes_neighbours[u])

\* alias_setup has returned the table of three equal weights above 1.
C27_Witness ==
    /\ call # None
    /\ call.op = "alias_setup"
    /\ ret # None
    /\ ~Raised(ret)
    /\ EqualPositive(call.args[1])
    /\ Len0(call.args[1].num) = 3
    /\ call.args[1].num[0] >= 2

\* C28: no step of random_walk reads the index before the constructor has
\* finished.  Every step of a walk, of every call on an index, is made on the
\* object as the constructor left it after its last assignment; and every
\* assignment of the constructor is made before any call was started, while
\* no walk is allocated or running.
C28_BuildHappensBeforeWalk ==
    [][/\ walk_vars' # walk_vars =>
            /\ state = "built"
            /\ state' = "built"
            /\ self' = self
            /\ locals' = locals
       /\ (state' # state \/ self' # self \/ locals' # locals) =>
            /\ walk_args = None
            /\ walk_state = "idle"
            /\ all_walks = None
            /\ task = None
            /\ walk_vars' = walk_vars
            /\ state' = "built" =>
                /\ self' = Graph(args).self
                /\ locals' = Graph(args).locals]_vars

\* The constructor has made its last assignment on two input edges or more,
\* and an iteration of a call on that index has read the edge tables.
C28_Witness ==
    /\ state = "built"
    /\ Len0(args.edges) >= 2
    /\ self._edges_alias # Empty
    /\ walk_state = "running"
    /\ \E t \in DOMAIN task : task[t].index >= 3

\* The node names in the edge file of the call.
EdgeFileNodes ==
    {call.args.edge_file.rows[k].subject : k \in DOMAIN call.args.edge_file.rows}
        \cup {call.args.edge_file.rows[k].object : k \in DOMAIN call.args.edge_file.rows}

\* C29: with a nodes file, read_csv raises ValueError and hands nothing to
\* Graph when a node of the edge file is not in the nodes file, and when the
\* nodes file lists a name twice; it reaches Graph(...) only when every node
\* of the edges is listed and the listed names are pairwise different, and
\* then the nodes it hands over are the list of the nodes file.
C29_NodesFileIsValidated ==
    (/\ call # None
     /\ call.op = "read_csv"
     /\ ret # None
     /\ call.args.node_path # None) =>
        LET ids == call.args.node_path.ids
        IN  /\ (\E node \in EdgeFileNodes : node \notin Range0(ids)) => ret = ValueError
            /\ (\E i \in DOMAIN ids, k \in DOMAIN ids : i # k /\ ids[i] = ids[k])
                    => ret = ValueError
            /\ Raised(ret) => "value" \notin DOMAIN ret
            /\ ~Raised(ret) =>
                /\ EdgeFileNodes \subseteq Range0(ids)
                /\ \A i \in DOMAIN ids, k \in DOMAIN ids : ids[i] = ids[k] => i = k
                /\ ret.value.nodes = ids

\* read_csv has raised on a nodes file that lists every node of the edges and
\* lists one of them twice, on edges that were not checked for duplicates.
C29_Witness ==
    /\ call # None
    /\ call.op = "read_csv"
    /\ ret = ValueError
    /\ call.args.node_path # None
    /\ ~call.args.check_for_duplicates
    /\ EdgeFileNodes # {}
    /\ EdgeFileNodes \subseteq Range0(call.args.node_path.ids)
    /\ Len0(call.args.node_path.ids) > Cardinality(Range0(call.args.node_path.ids))

\* The weight at the position of w in the adjacency list of u, in the lists st.
WeightIn(st, u, w) ==
    st.neighbours_weights[u][CHOOSE i \in DOMAIN st.nodes_neighbours[u] :
                                st.nodes_neighbours[u][i] = w]

\* C30: after the insertion loop, on any list of input edges, the adjacency
\* list of every node u and its weight list have the same length, no node is
\* twice in the adjacency list, a node w is in it exactly when has_edge((u, w)),
\* and the weight at the position of w is the weight of the input edge at
\* which (u, w) was inserted: the first one that found the pair missing, as
\* it is written or as the reverse of an undirected edge.  A built index is
\* made of these lists.
C30_AdjacencyMatchesEdges ==
    (args # None /\ state # "new") =>
        LET st == insert_edges(args, Len0(args.edges))
        IN  /\ DOMAIN st.nodes_neighbours = 0..(Len0(args.nodes) - 1)
            /\ DOMAIN st.neighbours_weights = DOMAIN st.nodes_neighbours
            /\ \A u \in DOMAIN st.nodes_neighbours :
                LET adj == st.nodes_neighbours[u]
                IN  /\ DOMAIN adj = 0..(Len0(adj) - 1)
                    /\ DOMAIN st.neighbours_weights[u] = DOMAIN adj
                    /\ \A i \in DOMAIN adj, k \in DOMAIN adj : adj[i] = adj[k] => i = k
                    /\ \A w \in DOMAIN st.nodes_neighbours :
                        w \in Range0(adj) <=> has_edge(st, <<u, w>>)
            /\ \A k \in DOMAIN args.edges :
                LET before == insert_edges(args, k)
                    src == InputSrc(k)
                    dst == InputDst(k)
                IN  /\ ~has_edge(before, <<src, dst>>) =>
                        WeightIn(st, src, dst) = args.weights[k]
                    /\ (~args.directed[k] /\ src # dst /\ ~has_edge(before, <<dst, src>>)) =>
                        WeightIn(st, dst, src) = args.weights[k]
            /\ \A p \in DOMAIN st._edges.val :
                \E k \in DOMAIN args.edges :
                    /\ ~has_edge(insert_edges(args, k), p)
                    /\ \/ p = <<InputSrc(k), InputDst(k)>>
                       \/ ~args.directed[k] /\ p = <<InputDst(k), InputSrc(k)>>
            /\ state = "built" =>
                /\ locals.nodes_neighbours = st.nodes_neighbours
                /\ locals.neighbours_weights = st.neighbours_weights
                /\ \A u \in NodeIds, w \in NodeIds :
                    w \in Range0(locals.nodes_neighbours[u]) <=> has_edge(self, <<u, w>>)

\* A built index whose input joined two nodes by an undirected edge and then
\* again, the other way round, with another weight.
C30_Witness ==
    /\ state = "built"
    /\ \E h \in DOMAIN args.edges, k \in DOMAIN args.edges :
        /\ h < k
        /\ ~args.directed[h]
        /\ InputSrc(h) # InputDst(h)
        /\ InputSrc(k) = InputDst(h)
        /\ InputDst(k) = InputSrc(h)
        /\ args.weights[h] # args.weights[k]
        /\ StoredWeight(InputSrc(k), InputDst(k)) = args.weights[h]

====
